---- MODULE Spec2Model ----
(***************************************************************************)
(* Model of the wallet service's value-movement engine:                    *)
(*   IdempotencyInterceptor.intercept  (the idempotency gate),             *)
(*   TransactionsService.topUp / bonus / purchase / executeTransaction /   *)
(*   lockWalletsInOrder, WalletsService.findUserWallet / findSystemWallet, *)
(*   and SeedService.run.                                                  *)
(*                                                                         *)
(* The storage backend is PostgreSQL at READ COMMITTED.  What the code     *)
(* relies on is modelled: a storage transaction's writes are private until *)
(* its commit publishes them atomically; SELECT ... FOR UPDATE blocks      *)
(* while another storage transaction holds the row lock and then returns   *)
(* the committed row; an INSERT of an idempotency key blocks while another *)
(* open storage transaction has inserted the same key, and raises 23505    *)
(* once a row with that key is committed; the INSERT of a transactions row *)
(* checks its two foreign keys to wallets by locking the referenced wallet *)
(* rows FOR KEY SHARE until the storage transaction ends, a lock that      *)
(* conflicts with FOR UPDATE (and with nothing else) in both directions.   *)
(*                                                                         *)
(* Amounts are counted in whole units.  Only GOLD_COINS is modelled: the   *)
(* seed's three asset types are independent copies of one another.         *)
(***************************************************************************)
EXTENDS Integers, Sequences, FiniteSets, TLC

\* Number of HTTP movement requests the model issues (each on its own task).
NumTasks == 2
\* Request amounts are bobGold * k for k in 1..MaxAmountUnits.
MaxAmountUnits == 2

Tasks == 1..NumTasks

\* ----------------------------------------------------------------- enums
TOP_UP == "TOP_UP"
BONUS == "BONUS"
PURCHASE == "PURCHASE"
TransactionType == {TOP_UP, BONUS, PURCHASE}

PENDING == "PENDING"
COMPLETED == "COMPLETED"
FAILED == "FAILED"

DEBIT == "DEBIT"
CREDIT == "CREDIT"

ROLE_USER == "USER"
ROLE_SYSTEM == "SYSTEM"

\* ------------------------------------------------------------- seed data
GOLD_COINS == "GOLD_COINS"
\* assetTypesData of SeedService.run, restricted to GOLD_COINS.
assetTypesData == <<GOLD_COINS>>
\* usersData of SeedService.run.
usersData == <<"alice", "bob">>
TreasuryUser == "treasury"
genesisAmount == 1000000
aliceGold == 1000
bobGold == 500
initialBalances == [alice |-> aliceGold, bob |-> bobGold]

\* Wallet ids are generated UUIDs, compared as strings by lockWalletsInOrder.
\* The model fixes one outcome of the generation in which the treasury
\* wallet's id lies between the two user wallets' ids, so that both lock
\* orders (user first, treasury first) occur.
WalletIdOf == [alice |-> 1, treasury |-> 2, bob |-> 3]
WalletIds == {WalletIdOf[u] : u \in DOMAIN WalletIdOf}

RoleOf(u) == IF u = TreasuryUser THEN ROLE_SYSTEM ELSE ROLE_USER

genesisKey(code) == "genesis-treasury-" \o code
seedKey(username, code) == "seed-" \o username \o "-" \o code

\* -------------------------------------------------------------- requests
\* Idempotency-Key header values of the requests; NoKey is a missing header.
KeyNames == <<"k1", "k2", "k3", "k4", "k5">>
Keys == {KeyNames[i] : i \in Tasks}
NoKey == "none"
\* Ids of the rows the executor inserts (PrimaryGeneratedColumn uuid): one
\* per invocation.
TxnIdNames == <<"txn-1", "txn-2", "txn-3", "txn-4", "txn-5">>
TxnIdOf(t) == TxnIdNames[t]
NoTxn == "no-txn"

\* userId of a request: any UUID passes the DTO, so the treasury user's id
\* and an id of no user are inputs too.
RequestUserIds == {"alice", "bob", TreasuryUser, "nobody"}
\* amount of a request: multiples of bob's seeded balance, so that purchases
\* of half a balance, of a whole balance and of more than the balance occur.
Amounts == {bobGold * k : k \in 1..MaxAmountUnits}

VARIABLES
    users,       \* committed users rows: set of usernames (the id)
    assetTypes,  \* committed asset_types rows: set of codes
    wallets,     \* committed wallets rows: wallet id -> balance
    txns,        \* committed transactions rows: set of records
    ledger,      \* committed ledger_entries rows, in insertion order
    lockHolder,  \* wallet id -> task holding its row lock, or 0
    pc,          \* task -> position in the request's control flow
    req,         \* task -> the request (route, header, body)
    qr,          \* task -> its QueryRunner: connection and transaction state
    work,        \* task -> uncommitted writes of its storage transaction
    loc,         \* task -> local variables of executeTransaction
    res          \* task -> outcome of the request and the transaction returned

vars == <<users, assetTypes, wallets, txns, ledger, lockHolder,
          pc, req, qr, work, loc, res>>
dbVars == <<users, assetTypes, wallets, txns, ledger>>

NoReq == [type |-> "none", userId |-> "none", amount |-> 0, key |-> NoKey]
NoQr == [connected |-> FALSE, isTransactionActive |-> FALSE,
         released |-> 0, commits |-> 0, rollbacks |-> 0]
NoWork == [row |-> "none", balance |-> <<>>, entries |-> <<>>]
NoLoc == [sourceWalletId |-> 0, destWalletId |-> 0, validateSourceBalance |-> FALSE,
          first |-> 0, second |-> 0,
          sourceBalance |-> 0, destBalance |-> 0,
          newSourceBalance |-> 0, newDestBalance |-> 0]
NoRes == [outcome |-> "none", txn |-> NoTxn, available |-> 0, required |-> 0,
          errorMessage |-> "none"]

Init ==
    /\ users = {}
    /\ assetTypes = {}
    /\ wallets = <<>>
    /\ txns = {}
    /\ ledger = <<>>
    /\ lockHolder = [w \in WalletIds |-> 0]
    /\ pc = [t \in Tasks |-> "idle"]
    /\ req = [t \in Tasks |-> NoReq]
    /\ qr = [t \in Tasks |-> NoQr]
    /\ work = [t \in Tasks |-> NoWork]
    /\ loc = [t \in Tasks |-> NoLoc]
    /\ res = [t \in Tasks |-> NoRes]

\* ------------------------------------------------------------ SeedService
Db == [users |-> users, assetTypes |-> assetTypes, wallets |-> wallets,
       txns |-> txns, ledger |-> ledger]

HasKey(rows, key) == \E x \in rows : x.idempotencyKey = key
RowOfKey(rows, key) == CHOOSE x \in rows : x.idempotencyKey = key

Txn(id, key, type, status, src, dst, amount, reason) ==
    [id |-> id, idempotencyKey |-> key, type |-> type, status |-> status,
     sourceWalletId |-> src, destinationWalletId |-> dst, amount |-> amount,
     reason |-> reason, errorMessage |-> "none"]

Entry(txnId, walletId, entryType, amount, balanceAfter) ==
    [transactionId |-> txnId, walletId |-> walletId, entryType |-> entryType,
     amount |-> amount, balanceAfter |-> balanceAfter]

\* findOne(Wallet) then create with balance 0 when absent.
FindOrCreateWallet(db, w) ==
    IF w \in DOMAIN db.wallets THEN db
    ELSE [db EXCEPT !.wallets = (w :> 0) @@ @]

\* Steps 1-3: asset types, the treasury user, the regular users; each is
\* created only when findOne does not find it.
SeedReferenceData(db) ==
    [db EXCEPT !.assetTypes = @ \cup {assetTypesData[i] : i \in DOMAIN assetTypesData},
               !.users = @ \cup {TreasuryUser}
                           \cup {usersData[i] : i \in DOMAIN usersData}]

\* Step 4 for one asset type: the treasury wallet and its genesis transaction,
\* a self-referencing COMPLETED transaction with a single CREDIT entry.
SeedTreasury(db, code) ==
    LET w   == WalletIdOf[TreasuryUser]
        db1 == FindOrCreateWallet(db, w)
        key == genesisKey(code)
        newBalance == db1.wallets[w] + genesisAmount
    IN  IF HasKey(db1.txns, key) THEN db1
        ELSE [db1 EXCEPT
                !.txns = @ \cup {Txn(key, key, TOP_UP, COMPLETED, w, w,
                                     genesisAmount, "genesis_mint")},
                !.wallets = [@ EXCEPT ![w] = newBalance],
                !.ledger = Append(@, Entry(key, w, CREDIT, genesisAmount, newBalance))]

\* Mutant of SeedUser: the funding transaction is written without looking
\* for an existing one.
SeedUserAgain(db, username, code) ==
    LET w   == WalletIdOf[username]
        tw  == WalletIdOf[TreasuryUser]
        db1 == FindOrCreateWallet(db, w)
        key == seedKey(username, code)
        amount == initialBalances[username]
        newTreasuryBalance == db1.wallets[tw] - amount
        newUserBalance == db1.wallets[w] + amount
    IN  [db1 EXCEPT
           !.wallets = [@ EXCEPT ![tw] = newTreasuryBalance,
                                 ![w] = newUserBalance],
           !.ledger = @ \o <<Entry(key, tw, DEBIT, amount, newTreasuryBalance),
                             Entry(key, w, CREDIT, amount, newUserBalance)>>]

\* Step 5 for one user and asset type: the user wallet and its funding
\* TOP_UP from the treasury, skipped when the seed transaction exists.
SeedUser(db, username, code) ==
    LET w   == WalletIdOf[username]
        tw  == WalletIdOf[TreasuryUser]
        db1 == FindOrCreateWallet(db, w)
        key == seedKey(username, code)
        amount == initialBalances[username]
        newTreasuryBalance == db1.wallets[tw] - amount
        newUserBalance == db1.wallets[w] + amount
    IN  IF HasKey(db1.txns, key) THEN db1
        ELSE [db1 EXCEPT
                !.txns = @ \cup {Txn(key, key, TOP_UP, COMPLETED, tw, w,
                                     amount, "initial_seed")},
                !.wallets = [@ EXCEPT ![tw] = newTreasuryBalance,
                                      ![w] = newUserBalance],
                !.ledger = @ \o <<Entry(key, tw, DEBIT, amount, newTreasuryBalance),
                                  Entry(key, w, CREDIT, amount, newUserBalance)>>]

RECURSIVE SeedUsers(_, _, _)
SeedUsers(db, i, code) ==
    IF i > Len(usersData) THEN db
    ELSE SeedUsers(SeedUser(db, usersData[i], code), i + 1, code)

RECURSIVE SeedAssets(_, _)
SeedAssets(db, i) ==
    IF i > Len(assetTypesData) THEN db
    ELSE SeedAssets(SeedUsers(SeedTreasury(db, assetTypesData[i]), 1,
                              assetTypesData[i]), i + 1)

\* SeedService.run: one storage transaction, committed as a whole.
SeedRun(db) == SeedAssets(SeedReferenceData(db), 1)

\* The committed state a first run of the seed leaves behind.
EmptyDb == [users |-> {}, assetTypes |-> {}, wallets |-> <<>>,
            txns |-> {}, ledger |-> <<>>]
SeededDb == SeedRun(EmptyDb)

Seed ==
    LET db == SeedRun(Db)
    IN  /\ users' = db.users
        /\ assetTypes' = db.assetTypes
        /\ wallets' = db.wallets
        /\ txns' = db.txns
        /\ ledger' = db.ledger
        /\ UNCHANGED <<lockHolder, pc, req, qr, work, loc, res>>

\* --------------------------------------------------------------- requests
UsedKeys(t) == {req[u].key : u \in 1..(t - 1)} \ {NoKey}
\* Keys are opaque strings: a request reuses a key already sent or takes the
\* next unused one.
KeyChoices(t) == {KeyNames[i] : i \in 1..(Cardinality(UsedKeys(t)) + 1)} \cap Keys

\* A POST /transactions/{top-up,bonus,purchase} arrives.
Start(t) ==
    /\ pc[t] = "idle"
    /\ \A u \in 1..(t - 1) : pc[u] # "idle"
    /\ \E type \in TransactionType, userId \in RequestUserIds,
          amount \in Amounts, key \in KeyChoices(t) \cup {NoKey} :
          req' = [req EXCEPT ![t] = [type |-> type, userId |-> userId,
                                     amount |-> amount, key |-> key]]
    /\ pc' = [pc EXCEPT ![t] = "gate"]
    /\ UNCHANGED <<dbVars, lockHolder, qr, work, loc, res>>

\* ------------------------------------------------------------ QueryRunner
\* connect() and startTransaction('READ COMMITTED').
Started(q) == [q EXCEPT !.connected = TRUE, !.isTransactionActive = TRUE]
Connected(q) == [q EXCEPT !.connected = TRUE]

\* rollbackTransaction() / commitTransaction(): the transaction ends.
RolledBack(q) == [q EXCEPT !.isTransactionActive = FALSE, !.rollbacks = @ + 1]
Committed(q) == [q EXCEPT !.isTransactionActive = FALSE, !.commits = @ + 1]

\* Mutant of CatchBlock: the catch block rethrows without rolling back.
CatchWithoutRollback(q) == q

\* Mutant of CatchBlock: the catch block rolls back without consulting
\* isTransactionActive.
CatchAlwaysRollsBack(q) == RolledBack(q)

\* The catch block of executeTransaction: roll back only if the transaction
\* is still active.
CatchBlock(q) == IF q.isTransactionActive THEN RolledBack(q) ELSE q

\* The finally block of executeTransaction: release().
FinallyBlock(q) == [q EXCEPT !.connected = FALSE, !.released = @ + 1]

\* The end of task t's storage transaction in the store, by commit or by
\* rollback: its uncommitted writes are gone from its workspace and its row
\* locks are released.
EndStorageTransaction(t) ==
    /\ work' = [work EXCEPT ![t] = NoWork]
    /\ lockHolder' = [w \in WalletIds |-> IF lockHolder[w] = t THEN 0 ELSE lockHolder[w]]

\* The request goes on to its next step.
SetPc(t, p) ==
    /\ pc' = [pc EXCEPT ![t] = p]
    /\ UNCHANGED <<req, res>>

\* Responses that carry a transaction or the balance check's figures; every
\* other response is an error that carries nothing of the request's body.
KeepsBody == {"completed", "replay", "duplicate_replay", "insufficient_balance"}

\* The request ends: the response goes to the caller and the locals of the
\* call are gone.  Of the request, an error keeps the route and the key (the
\* error log line).
Finish(t, outcome, txnId) ==
    /\ pc' = [pc EXCEPT ![t] = "done"]
    /\ res' = [res EXCEPT ![t] =
                 [outcome |-> outcome, txn |-> txnId,
                  available |-> IF outcome = "insufficient_balance"
                                THEN loc[t].sourceBalance ELSE 0,
                  required |-> IF outcome = "insufficient_balance"
                               THEN req[t].amount ELSE 0,
                  errorMessage |-> IF outcome = "terminally_failed"
                                   THEN RowOfKey(txns, req[t].key).errorMessage
                                   ELSE "none"]]
    /\ req' = [req EXCEPT ![t] =
                 IF outcome \in KeepsBody THEN @
                 ELSE [NoReq EXCEPT !.type = req[t].type, !.key = req[t].key]]
    /\ loc' = [loc EXCEPT ![t] = NoLoc]

\* An error thrown inside the try block: the catch block (rollback if still
\* active), the finally block (release), and the error reaches the caller.
\* q is the QueryRunner as the throwing statement left it.
Throw(t, q, error) ==
    /\ qr' = [qr EXCEPT ![t] = FinallyBlock(CatchBlock(q))]
    /\ IF CatchBlock(q).isTransactionActive
       THEN UNCHANGED <<work, lockHolder>>
       ELSE EndStorageTransaction(t)
    /\ Finish(t, error, NoTxn)

\* ---------------------------------------------------------------- the gate
\* Mutant of GateVerdict: the interceptor lets every request through.
GateAlwaysProceeds(rows, key) == "proceed"

\* Mutant of GateVerdict: only a COMPLETED row stops the request.
GateStopsOnlyCompleted(rows, key) ==
    IF key # NoKey /\ HasKey(rows, key) /\ RowOfKey(rows, key).status = COMPLETED
    THEN "replay" ELSE "proceed"

\* Mutant of GateVerdict: the two exceptions are exchanged.
GateSwapsExceptions(rows, key) ==
    IF key = NoKey \/ ~HasKey(rows, key) THEN "proceed"
    ELSE CASE RowOfKey(rows, key).status = COMPLETED -> "replay"
           [] RowOfKey(rows, key).status = PENDING   -> "terminally_failed"
           [] RowOfKey(rows, key).status = FAILED    -> "conflict"
           [] OTHER                                  -> "proceed"

\* IdempotencyInterceptor.intercept: what the lookup by key classifies to.
GateVerdict(rows, key) ==
    IF key = NoKey THEN "proceed"
    ELSE IF ~HasKey(rows, key) THEN "proceed"
    ELSE LET existing == RowOfKey(rows, key)
         IN  CASE existing.status = COMPLETED -> "replay"
               [] existing.status = PENDING   -> "conflict"
               [] existing.status = FAILED    -> "terminally_failed"
               [] OTHER                       -> "proceed"

Gate(t) ==
    /\ pc[t] = "gate"
    /\ LET verdict == GateVerdict(txns, req[t].key)
       IN  IF verdict = "proceed"
           THEN SetPc(t, "handler") /\ UNCHANGED loc
           ELSE Finish(t, verdict,
                       IF verdict = "replay" THEN RowOfKey(txns, req[t].key).id
                       ELSE NoTxn)
    /\ UNCHANGED <<dbVars, lockHolder, qr, work>>

\* ------------------------------------------------------------ the service
\* Mutant of findUserWallet: a user without a wallet is given alice's.
findUserWalletOrDefault(ws, userId) ==
    IF userId \in DOMAIN WalletIdOf /\ WalletIdOf[userId] \in DOMAIN ws
    THEN WalletIdOf[userId] ELSE WalletIdOf["alice"]

\* WalletsService.findUserWallet: the wallet of (userId, assetTypeCode).
findUserWallet(ws, userId) ==
    IF userId \in DOMAIN WalletIdOf /\ WalletIdOf[userId] \in DOMAIN ws
    THEN WalletIdOf[userId] ELSE 0

\* WalletsService.findSystemWallet: the wallet of the SYSTEM user.
findSystemWallet(ws) ==
    IF WalletIdOf[TreasuryUser] \in DOMAIN ws THEN WalletIdOf[TreasuryUser] ELSE 0

\* Mutant of ExecuteTransactionParams: every operation validates the source
\* balance.
ParamsAlwaysValidate(type, userWallet, treasuryWallet) ==
    [NoLoc EXCEPT
       !.sourceWalletId = IF type = PURCHASE THEN userWallet ELSE treasuryWallet,
       !.destWalletId = IF type = PURCHASE THEN treasuryWallet ELSE userWallet,
       !.validateSourceBalance = TRUE]

\* topUp / bonus / purchase: the parameters handed to executeTransaction.
ExecuteTransactionParams(type, userWallet, treasuryWallet) ==
    [NoLoc EXCEPT
       !.sourceWalletId = IF type = PURCHASE THEN userWallet ELSE treasuryWallet,
       !.destWalletId = IF type = PURCHASE THEN treasuryWallet ELSE userWallet,
       !.validateSourceBalance = (type = PURCHASE)]

\* Mutant of IdempotencyKeyRejects: the header is optional.
IdempotencyKeyOptional(key) == FALSE

\* The @IdempotencyKey() parameter decorator: BadRequestException when the
\* Idempotency-Key header is absent or empty.
IdempotencyKeyRejects(key) == key = NoKey

\* The @IdempotencyKey() parameter decorator (400 without the header), then
\* topUp / bonus / purchase: the two wallet lookups (NotFound when either is
\* absent), and executeTransaction up to the try block: createQueryRunner,
\* connect, startTransaction.  An error of connect or startTransaction
\* propagates with neither catch nor finally.
Handler(t) ==
    /\ pc[t] = "handler"
    /\ LET r == req[t]
           userWallet == findUserWallet(wallets, r.userId)
           treasuryWallet == findSystemWallet(wallets)
       IN  IF IdempotencyKeyRejects(r.key)
           THEN Finish(t, "bad_request", NoTxn) /\ UNCHANGED qr
           ELSE IF userWallet = 0 \/ treasuryWallet = 0
           THEN Finish(t, "wallet_not_found", NoTxn) /\ UNCHANGED qr
           ELSE \/ /\ loc' = [loc EXCEPT ![t] =
                        ExecuteTransactionParams(r.type, userWallet, treasuryWallet)]
                   /\ qr' = [qr EXCEPT ![t] = Started(@)]
                   /\ SetPc(t, "insert")
                \/ /\ Finish(t, "storage_error", NoTxn)
                   /\ \/ UNCHANGED qr
                      \/ qr' = [qr EXCEPT ![t] = Connected(@)]
    /\ UNCHANGED <<dbVars, lockHolder, work>>

\* ------------------------------------------------------ executeTransaction
\* Another open storage transaction has inserted this key and not yet ended:
\* the unique index makes the INSERT wait for it.
KeyHeldByOther(t) ==
    \E u \in Tasks \ {t} : work[u].row # "none" /\ req[u].key = req[t].key

\* Mutant of UniqueViolation: the idempotencyKey column is not unique.
NoUniqueConstraint(rows, key) == FALSE

\* The unique constraint of Transaction.idempotencyKey: a committed row with
\* the key makes the INSERT raise 23505.
UniqueViolation(rows, key) == HasKey(rows, key)

\* Transaction.sourceWallet / destinationWallet (ManyToOne): the tasks whose
\* inserted, uncommitted transactions row references wallet w.  Each holds
\* the FOR KEY SHARE lock of the foreign-key check on w.
KeyShareHolders(w) ==
    {u \in Tasks : /\ work[u].row # "none"
                   /\ w \in {loc[u].sourceWalletId, loc[u].destWalletId}}

\* The foreign-key check of t's INSERT waits while another task holds the
\* FOR UPDATE lock of a wallet the row references.
ForeignKeysFree(t) ==
    \A w \in {loc[t].sourceWalletId, loc[t].destWalletId} :
        lockHolder[w] \in {0, t}

\* Mutant of OnUniqueViolation: the 23505 branch returns without rolling back.
ReturnWithoutRollback(q) == q

\* The 23505 branch of the inner catch: rollbackTransaction.
OnUniqueViolation(q) == RolledBack(q)

\* Step 1: save the PENDING row.  The unique index is checked first, the
\* foreign keys at the end of the statement.  On 23505: rollbackTransaction,
\* return findByIdempotencyKey(...) (the finally block releases the
\* connection before that read completes).
InsertPending(t) ==
    /\ pc[t] = "insert"
    /\ ~KeyHeldByOther(t)
    /\ UniqueViolation(txns, req[t].key) \/ ForeignKeysFree(t)
    /\ IF UniqueViolation(txns, req[t].key)
       THEN /\ qr' = [qr EXCEPT ![t] = FinallyBlock(OnUniqueViolation(@))]
            /\ IF OnUniqueViolation(qr[t]).isTransactionActive
               THEN UNCHANGED <<work, lockHolder>>
               ELSE EndStorageTransaction(t)
            /\ SetPc(t, "find_by_key")
       ELSE /\ work' = [work EXCEPT ![t].row = PENDING]
            /\ SetPc(t, "lock_first")
            /\ UNCHANGED <<qr, lockHolder>>
    /\ UNCHANGED <<dbVars, loc>>

\* Mutant of LockOrder: the wallets are locked in the caller's order.
CallerOrder(walletId1, walletId2) == <<walletId1, walletId2>>

\* lockWalletsInOrder: [firstId, secondId].
LockOrder(walletId1, walletId2) ==
    IF walletId1 < walletId2 THEN <<walletId1, walletId2>>
    ELSE <<walletId2, walletId1>>

\* Mutant of ReturnOrder: the pair is returned in the order of locking.
LockedOrder(walletId1, walletId2, first, second) == <<first, second>>

\* lockWalletsInOrder: the pair returned, from the rows locked first and second.
ReturnOrder(walletId1, walletId2, first, second) ==
    IF walletId1 < walletId2 THEN <<first, second>> ELSE <<second, first>>

\* Mutant of LockFree: a row lock is not granted again to the storage
\* transaction that holds it.
NonReentrantLock(t, w) ==
    IF w \notin DOMAIN wallets THEN TRUE
    ELSE lockHolder[w] = 0 /\ KeyShareHolders(w) \subseteq {t}

\* Mutant of LockFree: the wallet rows are read without a lock.
ReadWithoutLock(t, w) == TRUE

\* SELECT ... FOR UPDATE of one wallet row waits while another task holds
\* a row lock on it: the FOR UPDATE lock, or the FOR KEY SHARE lock of an
\* inserted transactions row.
LockFree(t, w) ==
    IF w \notin DOMAIN wallets THEN TRUE
    ELSE lockHolder[w] \in {0, t} /\ KeyShareHolders(w) \subseteq {t}

\* The first locked read of lockWalletsInOrder.
LockFirst(t) ==
    /\ pc[t] = "lock_first"
    /\ LET firstId == LockOrder(loc[t].sourceWalletId, loc[t].destWalletId)[1]
       IN  /\ LockFree(t, firstId)
           /\ IF firstId \notin DOMAIN wallets
              THEN Throw(t, qr[t], "wallet_not_found")
              ELSE /\ lockHolder' = [lockHolder EXCEPT ![firstId] = t]
                   /\ loc' = [loc EXCEPT ![t].first = wallets[firstId]]
                   /\ SetPc(t, "lock_second")
                   /\ UNCHANGED <<qr, work>>
    /\ UNCHANGED dbVars

\* The second locked read; the pair is handed back in (source, destination)
\* order.
LockSecond(t) ==
    /\ pc[t] = "lock_second"
    /\ LET l == loc[t]
           secondId == LockOrder(l.sourceWalletId, l.destWalletId)[2]
       IN  /\ LockFree(t, secondId)
           /\ IF secondId \notin DOMAIN wallets
              THEN Throw(t, qr[t], "wallet_not_found")
              ELSE LET second == wallets[secondId]
                       pair == ReturnOrder(l.sourceWalletId, l.destWalletId,
                                           l.first, second)
                   IN  /\ lockHolder' = [lockHolder EXCEPT ![secondId] = t]
                       /\ loc' = [loc EXCEPT ![t].second = second,
                                             ![t].sourceBalance = pair[1],
                                             ![t].destBalance = pair[2]]
                       /\ SetPc(t, "validate")
                       /\ UNCHANGED <<qr, work>>
    /\ UNCHANGED dbVars

\* Mutant of InsufficientBalance: the balance must exceed the amount.
BalanceMustExceed(validate, sourceBalance, amount) ==
    validate /\ sourceBalance <= amount

\* Mutant of InsufficientBalance: the source balance is never validated.
SkipBalanceCheck(validate, sourceBalance, amount) == FALSE

\* Step 3: sourceBalance < amount.
InsufficientBalance(validate, sourceBalance, amount) ==
    validate /\ sourceBalance < amount

\* Mutant of NewDestBalance: the destination is not credited.
DestBalanceUnchanged(destBalance, amount) == destBalance

\* Step 4: the new balances.
NewSourceBalance(sourceBalance, amount) == sourceBalance - amount
NewDestBalance(destBalance, amount) == destBalance + amount

\* Mutant of LedgerEntries: balanceAfter snapshots the balances as read.
StaleSnapshots(txnId, l, amount) ==
    <<Entry(txnId, l.sourceWalletId, DEBIT, amount, l.sourceBalance),
      Entry(txnId, l.destWalletId, CREDIT, amount, l.destBalance)>>

\* Step 6: the debit and credit entries, saved in one batch.
LedgerEntries(txnId, l, amount) ==
    <<Entry(txnId, l.sourceWalletId, DEBIT, amount, l.newSourceBalance),
      Entry(txnId, l.destWalletId, CREDIT, amount, l.newDestBalance)>>

\* Mutant of BalanceUpdates: the UPDATE statements carry no id criterion, so
\* every wallet row takes the new source balance.
BalanceUpdatesAllRows(l) == [w \in WalletIds |-> l.newSourceBalance]

\* Step 5: the two balance updates, the source's first.
BalanceUpdates(l) ==
    (l.destWalletId :> l.newDestBalance) @@ (l.sourceWalletId :> l.newSourceBalance)

\* Mutant of CommittedRow: the row is published with status FAILED.
CommittedRowFailed(t) ==
    Txn(TxnIdOf(t), req[t].key, req[t].type, FAILED,
        loc[t].sourceWalletId, loc[t].destWalletId, req[t].amount, "none")

\* Mutant of CommittedRow: the row is published as it was inserted, the
\* status update of step 7 falling outside the storage transaction.
CommittedRowAsInserted(t) ==
    Txn(TxnIdOf(t), req[t].key, req[t].type, PENDING,
        loc[t].sourceWalletId, loc[t].destWalletId, req[t].amount, "none")

\* The transactions row a storage transaction publishes when it commits.
CommittedRow(t) ==
    Txn(TxnIdOf(t), req[t].key, req[t].type, work[t].row,
        loc[t].sourceWalletId, loc[t].destWalletId, req[t].amount, "none")

\* Mutant of RejectInsufficient: the shortfall is recorded as a committed
\* FAILED transaction instead of being rolled back.
RecordFailedOnShortfall(t) ==
    /\ txns' = txns \cup {[CommittedRow(t) EXCEPT !.status = FAILED]}
    /\ UNCHANGED <<users, assetTypes, wallets, ledger>>
    /\ qr' = [qr EXCEPT ![t] = FinallyBlock(Committed(@))]
    /\ EndStorageTransaction(t)
    /\ Finish(t, "insufficient_balance", NoTxn)

\* Step 3 on a shortfall: rollbackTransaction, then BadRequestException
\* through the catch and finally blocks.
RejectInsufficient(t) ==
    /\ Throw(t, RolledBack(qr[t]), "insufficient_balance")
    /\ UNCHANGED dbVars

\* Steps 3 to 7, all inside the storage transaction and under both locks:
\* validate the source balance (on shortfall rollbackTransaction and
\* BadRequest), compute the new balances, update both wallets, save the two
\* ledger entries, mark the transaction COMPLETED.
ApplyMovement(t) ==
    /\ pc[t] = "validate"
    /\ LET l == loc[t]
           amount == req[t].amount
           l2 == [l EXCEPT !.newSourceBalance = NewSourceBalance(l.sourceBalance, amount),
                           !.newDestBalance = NewDestBalance(l.destBalance, amount)]
       IN  IF InsufficientBalance(l.validateSourceBalance, l.sourceBalance, amount)
           THEN RejectInsufficient(t)
           ELSE /\ loc' = [loc EXCEPT ![t] = l2]
                /\ work' = [work EXCEPT ![t] =
                              [row |-> COMPLETED, balance |-> BalanceUpdates(l2),
                               entries |-> LedgerEntries(TxnIdOf(t), l2, amount)]]
                /\ SetPc(t, "commit")
                /\ UNCHANGED <<qr, lockHolder, dbVars>>

\* Step 8: commitTransaction publishes the row, the balances and the entries
\* atomically and releases the row locks; then the finally block releases
\* the connection and findById reads the transaction to return.
Commit(t) ==
    /\ pc[t] = "commit"
    /\ txns' = txns \cup {CommittedRow(t)}
    /\ wallets' = [w \in DOMAIN wallets |->
                      IF w \in DOMAIN work[t].balance THEN work[t].balance[w]
                      ELSE wallets[w]]
    /\ ledger' = ledger \o work[t].entries
    /\ qr' = [qr EXCEPT ![t] = FinallyBlock(Committed(@))]
    /\ EndStorageTransaction(t)
    /\ SetPc(t, "find_by_id")
    /\ UNCHANGED <<users, assetTypes, loc>>

\* A storage primitive of the try block raises (connectivity, timeout, the
\* store aborting the statement as a deadlock victim, ...): the statement
\* has no effect and the error reaches the catch block.
FailingSteps == {"insert", "lock_first", "lock_second", "validate", "commit"}

StorageError(t) ==
    /\ pc[t] \in FailingSteps
    /\ Throw(t, qr[t], "storage_error")
    /\ UNCHANGED dbVars

\* findById(savedTransaction.id) after the commit.
FindById(t) ==
    /\ pc[t] = "find_by_id"
    /\ \/ IF \E x \in txns : x.id = TxnIdOf(t)
          THEN Finish(t, "completed", TxnIdOf(t))
          ELSE Finish(t, "not_found", NoTxn)
       \/ Finish(t, "storage_error", NoTxn)
    /\ UNCHANGED <<dbVars, lockHolder, qr, work>>

\* findByIdempotencyKey(params.idempotencyKey) on the 23505 path.
FindByIdempotencyKey(t) ==
    /\ pc[t] = "find_by_key"
    /\ \/ IF HasKey(txns, req[t].key)
          THEN Finish(t, "duplicate_replay", RowOfKey(txns, req[t].key).id)
          ELSE Finish(t, "not_found", NoTxn)
       \/ Finish(t, "storage_error", NoTxn)
    /\ UNCHANGED <<dbVars, lockHolder, qr, work>>

Next ==
    \/ Seed
    \/ \E t \in Tasks :
          \/ Start(t)
          \/ Gate(t)
          \/ Handler(t)
          \/ InsertPending(t)
          \/ LockFirst(t)
          \/ LockSecond(t)
          \/ ApplyMovement(t)
          \/ Commit(t)
          \/ StorageError(t)
          \/ FindById(t)
          \/ FindByIdempotencyKey(t)

Spec == Init /\ [][Next]_vars

\* ------------------------------------------- the gate as a pure function
\* IdempotencyInterceptor.intercept over every stored record it can find:
\* the seeded database plus at most one stored transaction with the first
\* request key, of any status and, when FAILED, any of two error messages.
TransactionStatus == {PENDING, COMPLETED, FAILED}
ErrorMessages == {"Insufficient balance", "connection lost"}

StoredRow(status, message) ==
    [Txn("txn-stored", KeyNames[1], TOP_UP, status, WalletIdOf[TreasuryUser],
         WalletIdOf["alice"], bobGold, "none")
       EXCEPT !.errorMessage = IF status = FAILED THEN message ELSE "none"]

StoredRows ==
    {{}} \cup {{StoredRow(status, message)} :
                  status \in TransactionStatus, message \in ErrorMessages}

GateInit ==
    /\ users = SeededDb.users
    /\ assetTypes = SeededDb.assetTypes
    /\ wallets = SeededDb.wallets
    /\ ledger = SeededDb.ledger
    /\ \E stored \in StoredRows :
          txns = stored \cup SeededDb.txns
    /\ lockHolder = [w \in WalletIds |-> 0]
    /\ pc = [t \in Tasks |-> "idle"]
    /\ req = [t \in Tasks |-> NoReq]
    /\ qr = [t \in Tasks |-> NoQr]
    /\ work = [t \in Tasks |-> NoWork]
    /\ loc = [t \in Tasks |-> NoLoc]
    /\ res = [t \in Tasks |-> NoRes]

GateNext == \E t \in Tasks : Start(t) \/ Gate(t)

GateSpec == GateInit /\ [][GateNext]_vars

\* ------------------------------------------- the service on a spent treasury
\* The treasury mints supply: top-ups and bonuses debit it without limit.
\* TreasuryLevels are the treasury balances the service is started from, each
\* reached from the seeded database by one earlier committed top-up.
TreasuryLevels == {0, bobGold}

\* The seeded database after topUp(alice, amount) committed with the amount
\* that leaves the treasury at the given level (steps 4 to 7 and the commit
\* of executeTransaction).
SpentDb(level) ==
    LET tw == WalletIdOf[TreasuryUser]
        w  == WalletIdOf["alice"]
        amount == SeededDb.wallets[tw] - level
        l0 == ExecuteTransactionParams(TOP_UP, w, tw)
        l  == [l0 EXCEPT
                 !.sourceBalance = SeededDb.wallets[tw],
                 !.destBalance = SeededDb.wallets[w],
                 !.newSourceBalance = NewSourceBalance(SeededDb.wallets[tw], amount),
                 !.newDestBalance = NewDestBalance(SeededDb.wallets[w], amount)]
    IN  [SeededDb EXCEPT
           !.txns = @ \cup {Txn("txn-earlier", "earlier", TOP_UP, COMPLETED,
                                tw, w, amount, "none")},
           !.wallets = [x \in DOMAIN @ |->
                          IF x \in DOMAIN BalanceUpdates(l)
                          THEN BalanceUpdates(l)[x] ELSE @[x]],
           !.ledger = @ \o LedgerEntries("txn-earlier", l, amount)]

SpentInit ==
    /\ \E level \in TreasuryLevels :
          /\ users = SpentDb(level).users
          /\ assetTypes = SpentDb(level).assetTypes
          /\ wallets = SpentDb(level).wallets
          /\ txns = SpentDb(level).txns
          /\ ledger = SpentDb(level).ledger
    /\ lockHolder = [w \in WalletIds |-> 0]
    /\ pc = [t \in Tasks |-> "idle"]
    /\ req = [t \in Tasks |-> NoReq]
    /\ qr = [t \in Tasks |-> NoQr]
    /\ work = [t \in Tasks |-> NoWork]
    /\ loc = [t \in Tasks |-> NoLoc]
    /\ res = [t \in Tasks |-> NoRes]

SpentNext ==
    \E t \in Tasks :
       \/ Start(t)
       \/ Gate(t)
       \/ Handler(t)
       \/ InsertPending(t)
       \/ LockFirst(t)
       \/ LockSecond(t)
       \/ ApplyMovement(t)
       \/ Commit(t)
       \/ StorageError(t)
       \/ FindById(t)
       \/ FindByIdempotencyKey(t)

SpentSpec == SpentInit /\ [][SpentNext]_vars

\* The whole service started on the seeded database with no stored
\* transaction of the first key or one of each status.
StoredSpec == GateInit /\ [][SpentNext]_vars

\* ------------------------------------------------- updates of ledger entries
\* The service itself only inserts ledger entries.  LedgerSpec adds a client
\* of the same EntityManager that attempts to change the amount of a stored
\* entry, in the two ways the persistence layer offers.

\* LedgerEntry.preventUpdate, the @BeforeUpdate listener: it throws.  Entity
\* listeners are called with the object being persisted and run only when
\* that object is an instance of the entity class.
preventUpdate(isLedgerEntryInstance) == isLedgerEntryInstance

\* The values an update attempt may write to ledger[i].amount.
OtherAmounts(i) == Amounts \ {ledger[i].amount}

\* The end of an update attempt: its outcome goes to the caller.
AttemptDone(t, i, amount, outcome) ==
    /\ pc' = [pc EXCEPT ![t] = "done"]
    /\ req' = [req EXCEPT ![t] = [NoReq EXCEPT !.type = "LEDGER_UPDATE",
                                               !.amount = amount]]
    /\ res' = [res EXCEPT ![t] = [NoRes EXCEPT !.outcome = outcome,
                                               !.txn = ledger[i].transactionId,
                                               !.required = i]]

\* manager.save(entry) of a loaded LedgerEntry with a changed amount: the
\* listener runs on the entity and throws before any UPDATE is sent.
SaveLedgerEntry(t) ==
    /\ pc[t] = "idle"
    /\ \A u \in 1..(t - 1) : pc[u] # "idle"
    /\ \E i \in DOMAIN ledger : \E amount \in OtherAmounts(i) :
          IF preventUpdate(TRUE)
          THEN /\ AttemptDone(t, i, amount, "ledger_immutable")
               /\ UNCHANGED ledger
          ELSE /\ AttemptDone(t, i, amount, "updated")
               /\ ledger' = [ledger EXCEPT ![i].amount = amount]
    /\ UNCHANGED <<users, assetTypes, wallets, txns, lockHolder, qr, work, loc>>

\* manager.update(LedgerEntry, id, {amount}), the call executeTransaction
\* uses for wallets: the values are a plain object, not a LedgerEntry, so
\* the listener does not run and the UPDATE statement is executed.
UpdateLedgerEntry(t) ==
    /\ pc[t] = "idle"
    /\ \A u \in 1..(t - 1) : pc[u] # "idle"
    /\ \E i \in DOMAIN ledger : \E amount \in OtherAmounts(i) :
          IF preventUpdate(FALSE)
          THEN /\ AttemptDone(t, i, amount, "ledger_immutable")
               /\ UNCHANGED ledger
          ELSE /\ AttemptDone(t, i, amount, "updated")
               /\ ledger' = [ledger EXCEPT ![i].amount = amount]
    /\ UNCHANGED <<users, assetTypes, wallets, txns, lockHolder, qr, work, loc>>

LedgerInit ==
    /\ users = SeededDb.users
    /\ assetTypes = SeededDb.assetTypes
    /\ wallets = SeededDb.wallets
    /\ txns = SeededDb.txns
    /\ ledger = SeededDb.ledger
    /\ lockHolder = [w \in WalletIds |-> 0]
    /\ pc = [t \in Tasks |-> "idle"]
    /\ req = [t \in Tasks |-> NoReq]
    /\ qr = [t \in Tasks |-> NoQr]
    /\ work = [t \in Tasks |-> NoWork]
    /\ loc = [t \in Tasks |-> NoLoc]
    /\ res = [t \in Tasks |-> NoRes]

LedgerNext ==
    \/ SpentNext
    \/ \E t \in Tasks : SaveLedgerEntry(t) \/ UpdateLedgerEntry(t)

LedgerSpec == LedgerInit /\ [][LedgerNext]_vars

\* ----------------------------------------------- lockWalletsInOrder alone
\* lockWalletsInOrder(queryRunner, walletId1, walletId2) as a function of its
\* arguments: LockerSpec starts each request either as it arrives or inside
\* executeTransaction at the call of lockWalletsInOrder, in an open storage
\* transaction, with every pair of wallet ids as arguments, the id of a
\* wallet that is not stored among them.
MissingWalletId == 4
LockerIds == WalletIds \cup {MissingWalletId}

\* The request whose invocation stands at the call of lockWalletsInOrder.
LockerReq(t) ==
    [type |-> BONUS, userId |-> "alice", amount |-> bobGold, key |-> KeyNames[t]]

\* The locals of executeTransaction at the call, for every pair of ids.
LockerCalls ==
    {[NoLoc EXCEPT !.sourceWalletId = a, !.destWalletId = b] : a, b \in LockerIds}

LockerInit ==
    /\ \E db \in {EmptyDb, SeededDb} :
          /\ users = db.users
          /\ assetTypes = db.assetTypes
          /\ wallets = db.wallets
          /\ txns = db.txns
          /\ ledger = db.ledger
    /\ lockHolder = [w \in WalletIds |-> 0]
    /\ work = [t \in Tasks |-> NoWork]
    /\ res = [t \in Tasks |-> NoRes]
    /\ pc \in [Tasks -> {"idle", "lock_first"}]
    /\ req = [t \in Tasks |-> IF pc[t] = "idle" THEN NoReq ELSE LockerReq(t)]
    /\ qr = [t \in Tasks |-> IF pc[t] = "idle" THEN NoQr ELSE Started(NoQr)]
    /\ loc \in [Tasks -> {NoLoc} \cup LockerCalls]
    /\ \A t \in Tasks : pc[t] = "idle" <=> loc[t] = NoLoc

LockerSpec == LockerInit /\ [][SpentNext]_vars

\* ------------------------------------------------------- fair scheduling
\* The steps of request t that the event loop and the store take when they
\* can: every await resumes once its statement has completed, and a lock is
\* granted once it is free.  A storage failure (StorageError) is possible at
\* any time and never bound to happen.
Progress(t) ==
    \/ Gate(t)
    \/ Handler(t)
    \/ InsertPending(t)
    \/ LockFirst(t)
    \/ LockSecond(t)
    \/ ApplyMovement(t)
    \/ Commit(t)
    \/ FindById(t)
    \/ FindByIdempotencyKey(t)

FairSpec == Spec /\ \A t \in Tasks : WF_vars(Progress(t))

\* ===================================================== properties checked
\* Wallet.userId: the user who owns wallet w.
OwnerOf(w) == CHOOSE u \in DOMAIN WalletIdOf : WalletIdOf[u] = w

\* The committed transactions the executor wrote.
ExecutorRows == txns \ SeededDb.txns

RECURSIVE SumAmount(_)
SumAmount(rows) ==
    IF rows = {} THEN 0
    ELSE LET x == CHOOSE y \in rows : TRUE
         IN  x.amount + SumAmount(rows \ {x})

MovedInto(w) == SumAmount({x \in ExecutorRows : x.destinationWalletId = w})
MovedOutOf(w) == SumAmount({x \in ExecutorRows : x.sourceWalletId = w})
SelfTransferOn(w) ==
    \E x \in ExecutorRows : x.sourceWalletId = w /\ x.destinationWalletId = w

\* Ledger positions of the entries of kind entryType written by an executor
\* invocation that carried key.
EntriesOfKey(key, entryType) ==
    {i \in DOMAIN ledger :
        /\ ledger[i].entryType = entryType
        /\ \E t \in Tasks : req[t].key = key /\ ledger[i].transactionId = TxnIdOf(t)}

\* C1: in every committed state, every wallet owned by a USER-role user has
\* balance >= 0, whatever the interleaving of top-ups, bonuses and purchases.
C1_NoUserOverdraft ==
    \A w \in DOMAIN wallets :
        RoleOf(OwnerOf(w)) = ROLE_USER => wallets[w] >= 0

\* C1 witness: a purchase found the user's wallet emptied by an earlier
\* committed purchase and was refused.
C1_Witness ==
    \E t \in Tasks :
        /\ res[t].outcome = "insufficient_balance"
        /\ res[t].available = 0
        /\ req[t].userId \in DOMAIN initialBalances
        /\ wallets[WalletIdOf[req[t].userId]] = 0

\* C2: whatever the number and interleaving of requests carrying one
\* idempotency key, at most one transaction row with that key is committed,
\* at most one DEBIT and one CREDIT entry exist for it, and every wallet's
\* balance is its seeded balance plus each committed movement counted once
\* (wallets that are both ends of a committed movement are left out).
C2_OneEffectPerKey ==
    /\ \A x, y \in txns : x.idempotencyKey = y.idempotencyKey => x = y
    /\ \A key \in Keys :
          /\ Cardinality(EntriesOfKey(key, DEBIT)) <= 1
          /\ Cardinality(EntriesOfKey(key, CREDIT)) <= 1
    /\ \A w \in DOMAIN wallets :
          ~SelfTransferOn(w) =>
              wallets[w] = SeededDb.wallets[w] + MovedInto(w) - MovedOutOf(w)

\* C2 witness: two top-ups with one key both passed the gate; one committed,
\* the other was answered with the committed transaction, and the user's
\* balance grew by the amount once.
C2_Witness ==
    \E t, u \in Tasks :
        /\ t # u
        /\ req[t].key = req[u].key
        /\ req[t].type = TOP_UP /\ req[u].type = TOP_UP
        /\ req[t].userId = "alice" /\ req[u].userId = "alice"
        /\ res[t].outcome = "completed"
        /\ res[u].outcome = "duplicate_replay"
        /\ wallets[WalletIdOf["alice"]] = aliceGold + req[t].amount

\* Another request with t's key holds its inserted row in a storage
\* transaction that is still open.
InsertedByOther(t) ==
    \E u \in Tasks \ {t} : req[u].key = req[t].key /\ work[u].row # "none"

\* C3 (as amended): when requests with one key have passed the gate together,
\* an INSERT of the key is not decided while another request's inserted row
\* is uncommitted; once a row with the key is committed, the other request's
\* INSERT raises 23505: it rolls back its own storage transaction once,
\* writes no transaction, wallet or ledger row, holds no lock, and its read
\* by key returns the committed COMPLETED transaction of the other request
\* (storage errors aside).
C3_DuplicateAfterWinnerCommits ==
    [][\A t \in Tasks :
         /\ (pc[t] = "insert" /\ InsertedByOther(t))
               => (pc'[t] = "insert" \/ res'[t].outcome = "storage_error")
         /\ (pc[t] = "insert" /\ pc'[t] # "insert" /\ HasKey(txns, req[t].key))
               => \/ res'[t].outcome = "storage_error"
                  \/ /\ pc'[t] = "find_by_key"
                     /\ qr'[t].rollbacks = 1 /\ qr'[t].commits = 0
                     /\ ~qr'[t].isTransactionActive
                     /\ work'[t] = NoWork
                     /\ lockHolder' = lockHolder
                     /\ dbVars' = dbVars
         /\ (pc[t] = "find_by_key" /\ pc'[t] = "done"
                /\ res'[t].outcome # "storage_error")
               => /\ res'[t].outcome = "duplicate_replay"
                  /\ \E x \in txns :
                        /\ x.id = res'[t].txn
                        /\ x.id # TxnIdOf(t)
                        /\ x.idempotencyKey = req[t].key
                        /\ x.status = COMPLETED
                  /\ dbVars' = dbVars]_vars

\* C3 witness: a purchase and another request with its key raced past the
\* gate; the purchase committed and the other, after one rollback, was
\* answered with the purchase's transaction.
C3_Witness ==
    \E t, u \in Tasks :
        /\ t # u
        /\ req[t].key = req[u].key
        /\ req[t].type = PURCHASE
        /\ \E x \in txns : x.id = TxnIdOf(t) /\ x.status = COMPLETED
        /\ res[u].outcome = "duplicate_replay"
        /\ res[u].txn = TxnIdOf(t)
        /\ qr[u].rollbacks = 1 /\ qr[u].released = 1

\* C3 as stated: of two requests with one key that raced past the gate,
\* exactly one PENDING insert succeeds, so the request whose insert succeeded
\* ends its storage transaction only by committing the row, which gives the
\* other its 23505 (storage errors aside).
C3_ExactlyOneInsertSucceeds ==
    [][\A t, u \in Tasks :
         (t # u /\ req[t].key = req[u].key
            /\ work[t].row # "none" /\ pc[u] = "insert")
         => \/ work'[t].row # "none"
            \/ HasKey(txns', req[t].key)
            \/ res'[t].outcome = "storage_error"]_vars

\* C4: a request whose key is that of a committed COMPLETED transaction is
\* answered at the gate with that transaction's id; no storage transaction
\* is opened and no transaction row, ledger entry or balance changes.
C4_ReplayOfCompleted ==
    [][\A t \in Tasks :
         (pc[t] = "gate" /\ pc'[t] # "gate"
            /\ \E x \in txns : x.idempotencyKey = req[t].key /\ x.status = COMPLETED)
         => /\ pc'[t] = "done"
            /\ res'[t].outcome = "replay"
            /\ res'[t].txn = RowOfKey(txns, req[t].key).id
            /\ dbVars' = dbVars
            /\ qr'[t] = NoQr
            /\ work'[t] = NoWork]_vars

\* C4 witness: a request completed and a second submission of its key was
\* answered with the first one's transaction without opening a storage
\* transaction.
C4_Witness ==
    \E t, u \in Tasks :
        /\ t # u
        /\ res[t].outcome = "completed"
        /\ res[u].outcome = "replay"
        /\ res[u].txn = TxnIdOf(t)
        /\ qr[u] = NoQr

\* Ledger positions of the entries that reference transaction id.
EntriesOfTxn(id) == {i \in DOMAIN ledger : ledger[i].transactionId = id}

RECURSIVE SumEntries(_)
SumEntries(idx) ==
    IF idx = {} THEN 0
    ELSE LET i == CHOOSE j \in idx : TRUE
         IN  ledger[i].amount + SumEntries(idx \ {i})

EntriesOfType(entryType) == {i \in DOMAIN ledger : ledger[i].entryType = entryType}

\* C5 as stated: in every committed state, every COMPLETED transaction is
\* referenced by exactly two ledger entries, one DEBIT on its source wallet
\* and one CREDIT on its destination wallet, both of the transaction's amount.
C5_TwoEntriesPerCompleted ==
    \A x \in txns :
        x.status = COMPLETED =>
            /\ Cardinality(EntriesOfTxn(x.id)) = 2
            /\ \E i, j \in EntriesOfTxn(x.id) :
                  /\ i # j
                  /\ ledger[i].entryType = DEBIT
                  /\ ledger[i].walletId = x.sourceWalletId
                  /\ ledger[i].amount = x.amount
                  /\ ledger[j].entryType = CREDIT
                  /\ ledger[j].walletId = x.destinationWalletId
                  /\ ledger[j].amount = x.amount

\* C6 as stated: in every committed state, the amounts of all DEBIT entries
\* and the amounts of all CREDIT entries have the same sum.
C6_GlobalZeroSum ==
    SumEntries(EntriesOfType(DEBIT)) = SumEntries(EntriesOfType(CREDIT))

\* Ledger positions of the entries on wallet w.
EntriesOnWallet(w) == {i \in DOMAIN ledger : ledger[i].walletId = w}
LatestEntryOn(w) ==
    ledger[CHOOSE i \in EntriesOnWallet(w) : \A j \in EntriesOnWallet(w) : j <= i]

C8_FailureLeavesNoTrace ==
    [][\A t \in Tasks :
         (pc[t] \in FailingSteps /\ pc'[t] = "done")
         => /\ dbVars' = dbVars
            /\ ~\E x \in txns' : x.id = TxnIdOf(t)
            /\ EntriesOfTxn(TxnIdOf(t))' = {}
            /\ work'[t] = NoWork
            /\ \A w \in WalletIds : lockHolder'[w] # t
            /\ ~qr'[t].isTransactionActive]_vars

\* C8 witness: an invocation failed on a storage error inside the try block
\* and was rolled back by the catch block, while another request's movement
\* is committed.
C8_Witness ==
    \E t \in Tasks :
        /\ res[t].outcome = "storage_error"
        /\ qr[t].rollbacks = 1
        /\ ExecutorRows # {}

\* C9: a purchase rejected with InsufficientBalance was short of funds
\* (available < required) and leaves no transaction row of its own; a request
\* that carries the same key is never answered with a conflict or a terminal
\* failure, and with a replay only of a transaction that a third request
\* committed: it executes, and is itself rejected only when short of funds.
C9_KeyNotConsumedByShortfall ==
    \A t \in Tasks :
        res[t].outcome = "insufficient_balance" =>
            /\ req[t].type = PURCHASE
            /\ res[t].available < res[t].required
            /\ ~\E x \in txns : x.id = TxnIdOf(t)
            /\ \A u \in Tasks \ {t} :
                  (req[u].key = req[t].key /\ pc[u] = "done") =>
                      \/ res[u].outcome \in {"completed", "insufficient_balance",
                                             "wallet_not_found", "storage_error",
                                             "not_found"}
                      \/ /\ res[u].outcome \in {"replay", "duplicate_replay"}
                         /\ \E v \in Tasks \ {t, u} : res[u].txn = TxnIdOf(v)

\* C9 witness: bob's purchase of more than his balance was rejected, and his
\* purchase of his whole balance under the same key committed.
C9_Witness ==
    \E t, u \in Tasks :
        /\ t # u
        /\ req[t].key = req[u].key
        /\ req[t].type = PURCHASE /\ req[u].type = PURCHASE
        /\ req[t].userId = "bob" /\ req[u].userId = "bob"
        /\ res[t].outcome = "insufficient_balance"
        /\ res[u].outcome = "completed"
        /\ \E x \in txns : x.id = TxnIdOf(u) /\ x.idempotencyKey = req[t].key
        /\ wallets[WalletIdOf["bob"]] = bobGold - req[u].amount

\* Every committed executor movement on wallet w was made by a task of S.
OnlyMovedBy(w, S) ==
    \A x \in ExecutorRows :
        (x.sourceWalletId = w \/ x.destinationWalletId = w)
            => \E v \in S : x.id = TxnIdOf(v)

WalletsRequested(t) ==
    CASE pc[t] = "lock_first" ->
            {LockOrder(loc[t].sourceWalletId, loc[t].destWalletId)[1]}
      [] pc[t] = "lock_second" ->
            {LockOrder(loc[t].sourceWalletId, loc[t].destWalletId)[2]}
      [] pc[t] = "insert" /\ ~KeyHeldByOther(t) /\ ~UniqueViolation(txns, req[t].key) ->
            {loc[t].sourceWalletId, loc[t].destWalletId}
      [] OTHER -> {}

\* Task t waits for a wallet row lock that task u holds.
WaitsFor(t, u) ==
    /\ t # u
    /\ \E w \in WalletsRequested(t) :
          \/ lockHolder[w] = u
          \/ pc[t] # "insert" /\ u \in KeyShareHolders(w)

\* C11 as stated: no state is reachable in which a set of tasks wait
\* cyclically for wallet row locks held by one another.
C11_NoWalletLockCycle ==
    ~\E S \in (SUBSET Tasks) \ {{}} :
        \A t \in S : \E u \in S : WaitsFor(t, u)

\* Task t has read its two wallets under lock and not yet ended its storage
\* transaction.
ReadUnderLock(t) == pc[t] \in {"validate", "commit"}

\* C12 as stated: when two executor tasks touch the same wallet, the one
\* that has to wait waits at wallet locking, for the FOR UPDATE lock of a
\* task that is itself free to run on to its commit or rollback; the
\* balances a task validates and computes from are the committed ones; and
\* no update is lost: every wallet's balance is its initial balance adjusted
\* by the amount of every committed movement on it.
C12_SerializedOnWalletLock ==
    /\ \A t, u \in Tasks :
          WaitsFor(u, t) =>
              /\ pc[u] \in {"lock_first", "lock_second"}
              /\ \E w \in WalletsRequested(u) : lockHolder[w] = t
              /\ \A v \in Tasks : ~WaitsFor(t, v)
    /\ \A t \in Tasks :
          ReadUnderLock(t) =>
              /\ loc[t].sourceBalance = wallets[loc[t].sourceWalletId]
              /\ loc[t].destBalance = wallets[loc[t].destWalletId]
    /\ \A w \in DOMAIN wallets :
          ~SelfTransferOn(w) =>
              wallets[w] = SeededDb.wallets[w] + MovedInto(w) - MovedOutOf(w)

\* C13: for a request that carries an idempotency key, the gate passes the
\* request on to the handler if and only if no transaction with that key is
\* stored; when one is stored (PENDING, COMPLETED or FAILED) the request ends
\* at the gate, and in either case the gate writes nothing and opens no
\* storage transaction.
C13_GatePassesIffNoRecord ==
    [][\A t \in Tasks :
         (pc[t] = "gate" /\ pc'[t] # "gate" /\ req[t].key # NoKey)
         => /\ (pc'[t] = "handler") <=> ~HasKey(txns, req[t].key)
            /\ HasKey(txns, req[t].key) => pc'[t] = "done"
            /\ dbVars' = dbVars
            /\ qr' = qr /\ work' = work /\ lockHolder' = lockHolder]_vars

\* C13 witness: of two requests with keys, one found a stored PENDING record
\* and ended at the gate, the other found none and was passed on.
C13_Witness ==
    \E t, u \in Tasks :
        /\ pc[t] = "done" /\ res[t].outcome = "conflict"
        /\ pc[u] = "handler" /\ req[u].key # NoKey
        /\ ~HasKey(txns, req[u].key)

\* C14: when the gate finds a PENDING transaction the request fails with
\* ConflictException, when it finds a FAILED one with
\* UnprocessableEntityException carrying the stored errorMessage; in neither
\* case does the request reach the handler or anything stored change.
C14_GateRejectsPendingAndFailed ==
    [][\A t \in Tasks :
         (pc[t] = "gate" /\ pc'[t] # "gate" /\ HasKey(txns, req[t].key))
         => LET existing == RowOfKey(txns, req[t].key)
            IN  /\ existing.status = PENDING =>
                      /\ pc'[t] = "done"
                      /\ res'[t].outcome = "conflict"
                      /\ res'[t].txn = NoTxn
                /\ existing.status = FAILED =>
                      /\ pc'[t] = "done"
                      /\ res'[t].outcome = "terminally_failed"
                      /\ res'[t].errorMessage = existing.errorMessage
                      /\ res'[t].txn = NoTxn
                /\ existing.status \in {PENDING, FAILED} =>
                      /\ dbVars' = dbVars
                      /\ qr'[t] = NoQr /\ work'[t] = NoWork]_vars

\* C14 witness: a request whose key is that of a stored FAILED transaction
\* was refused with that transaction's error message.
C14_Witness ==
    \E t \in Tasks :
        /\ res[t].outcome = "terminally_failed"
        /\ res[t].errorMessage = "Insufficient balance"
        /\ \E x \in txns : /\ x.idempotencyKey = req[t].key
                           /\ x.status = FAILED
                           /\ x.errorMessage = "Insufficient balance"
        /\ qr[t] = NoQr

\* C15: a top-up, bonus or purchase request whose idempotency key is missing
\* or empty is passed through by the gate and then rejected with a validation
\* error (400) before the service is called: it opens no storage transaction
\* and changes nothing stored.
C15_MissingKeyRejected ==
    [][\A t \in Tasks :
         (req[t].key = NoKey /\ pc[t] \in {"gate", "handler"} /\ pc'[t] # pc[t])
         => /\ pc[t] = "gate" => pc'[t] = "handler"
            /\ pc[t] = "handler" =>
                  /\ pc'[t] = "done"
                  /\ res'[t].outcome = "bad_request"
                  /\ res'[t].txn = NoTxn
            /\ qr'[t] = NoQr /\ work'[t] = NoWork
            /\ dbVars' = dbVars /\ lockHolder' = lockHolder]_vars

\* C15 witness: a purchase without a key has been rejected while another
\* request, with a key, committed; nothing of the first is stored.
C15_Witness ==
    \E t \in Tasks :
        /\ pc[t] = "done" /\ req[t].key = NoKey
        /\ req[t].type = PURCHASE
        /\ \E u \in Tasks \ {t} : res[u].outcome = "completed"
        /\ res[t].outcome = "bad_request"
        /\ qr[t] = NoQr
        /\ ~HasKey(txns, NoKey)

\* C16: topUp and bonus never fail with InsufficientBalance: whatever the
\* treasury balance under lock (zero and negative included) the validation
\* step lets them through to the balance updates, debiting the treasury by
\* the amount, so that the treasury balance may become negative; an
\* InsufficientBalance outcome is produced by purchase alone, exactly when
\* the user's balance under lock is below the amount.
C16_OnlyPurchaseValidates ==
    [][\A t \in Tasks :
         (pc[t] = "validate" /\ pc'[t] # "validate")
         => LET l == loc[t]
                amount == req[t].amount
                tw == WalletIdOf[TreasuryUser]
            IN  /\ req[t].type \in {TOP_UP, BONUS} =>
                      /\ l.sourceWalletId = tw
                      /\ res'[t].outcome # "insufficient_balance"
                      /\ \/ res'[t].outcome = "storage_error"
                         \/ /\ pc'[t] = "commit"
                            /\ work'[t].row = COMPLETED
                            /\ l.destWalletId # tw =>
                                  work'[t].balance[tw] = l.sourceBalance - amount
                /\ req[t].type = PURCHASE =>
                      \/ res'[t].outcome = "storage_error"
                      \/ (res'[t].outcome = "insufficient_balance")
                            <=> l.sourceBalance < amount]_vars

\* C16 witness: a bonus that found the treasury already negative committed,
\* leaving it lower still.
C16_Witness ==
    \E t \in Tasks, i \in DOMAIN ledger :
        /\ res[t].outcome = "completed" /\ req[t].type = BONUS
        /\ ledger[i].transactionId = TxnIdOf(t)
        /\ ledger[i].walletId = WalletIdOf[TreasuryUser]
        /\ ledger[i].entryType = DEBIT
        /\ ledger[i].balanceAfter + ledger[i].amount < 0
        /\ wallets[WalletIdOf[TreasuryUser]] = ledger[i].balanceAfter

\* C17: a movement of amount A between two distinct wallets that commits
\* sets the source balance to its balance under lock minus A and the
\* destination balance to its balance under lock plus A, and appends
\* DEBIT(source, A, new source balance) and CREDIT(destination, A, new
\* destination balance); for topUp and bonus the source is the treasury
\* wallet and the destination the user's, for purchase the reverse.
C17_CommittedMovement ==
    [][\A t \in Tasks :
         (pc[t] = "commit" /\ pc'[t] = "find_by_id"
            /\ loc[t].sourceWalletId # loc[t].destWalletId)
         => LET src == loc[t].sourceWalletId
                dst == loc[t].destWalletId
                A == req[t].amount
                userWallet == WalletIdOf[req[t].userId]
                tw == WalletIdOf[TreasuryUser]
            IN  /\ loc[t].sourceBalance = wallets[src]
                /\ loc[t].destBalance = wallets[dst]
                /\ wallets'[src] = loc[t].sourceBalance - A
                /\ wallets'[dst] = loc[t].destBalance + A
                /\ \A w \in DOMAIN wallets \ {src, dst} : wallets'[w] = wallets[w]
                /\ ledger' = ledger \o
                      <<Entry(TxnIdOf(t), src, DEBIT, A, wallets'[src]),
                        Entry(TxnIdOf(t), dst, CREDIT, A, wallets'[dst])>>
                /\ req[t].type \in {TOP_UP, BONUS} => src = tw /\ dst = userWallet
                /\ req[t].type = PURCHASE => src = userWallet /\ dst = tw]_vars

\* C17 witness: a purchase by bob and a top-up of alice have both committed.
C17_Witness ==
    \E t, u \in Tasks :
        /\ res[t].outcome = "completed" /\ req[t].type = PURCHASE
        /\ req[t].userId = "bob"
        /\ res[u].outcome = "completed" /\ req[u].type = TOP_UP
        /\ req[u].userId = "alice"
        /\ \E i \in DOMAIN ledger :
              /\ ledger[i].transactionId = TxnIdOf(u)
              /\ ledger[i].entryType = CREDIT
              /\ ledger[i].walletId = WalletIdOf["alice"]
              /\ ledger[i].balanceAfter = aliceGold + req[u].amount

\* C18: on every exit path of an executor invocation (commit, duplicate-key
\* replay, insufficient balance, wallet not found, storage error at any step,
\* a failure to start the transaction after the connection was acquired
\* included) the connection the invocation acquired has been released exactly
\* once and no storage transaction is open once the call has returned.
C18_ConnectionReleasedOnEveryPath ==
    \A t \in Tasks :
        pc[t] = "done" =>
            /\ ~qr[t].connected
            /\ ~qr[t].isTransactionActive
            /\ qr[t].released <= 1
            /\ qr[t].commits + qr[t].rollbacks <= 1

ExecutorReturns == {"completed", "duplicate_replay"}
ExecutorThrows == {"insufficient_balance", "wallet_not_found", "storage_error",
                   "not_found"}

\* C20: executeTransaction returns a transaction only when its own storage
\* transaction committed, or when its insert hit the unique violation of the
\* idempotency key and the existing transaction was read back; every other
\* error (insufficient balance, wallet not found, any storage failure, a
\* failed commit included) reaches the caller as an error after rollback,
\* with nothing of the invocation committed, and never as a success.
C20_ReturnsOnlyOnCommitOrReplay ==
    \A t \in Tasks :
        pc[t] = "done" =>
            /\ res[t].outcome = "completed" =>
                  /\ qr[t].commits = 1 /\ qr[t].rollbacks = 0
                  /\ res[t].txn = TxnIdOf(t)
                  /\ \E x \in txns : x.id = TxnIdOf(t) /\ x.status = COMPLETED
            /\ res[t].outcome = "duplicate_replay" =>
                  /\ qr[t].commits = 0 /\ qr[t].rollbacks = 1
                  /\ res[t].txn # TxnIdOf(t)
                  /\ \E x \in txns : /\ x.id = res[t].txn
                                     /\ x.idempotencyKey = req[t].key
            /\ res[t].outcome \in ExecutorThrows =>
                  /\ res[t].txn = NoTxn
                  /\ ~qr[t].isTransactionActive
                  /\ qr[t].commits = 0
                  /\ ~\E x \in txns : x.id = TxnIdOf(t)
                  /\ EntriesOfTxn(TxnIdOf(t)) = {}

\* The two entries of transaction row x: its DEBIT on the source and its
\* CREDIT on the destination, each of the row's amount, and no other entry.
FullEffect(x) ==
    /\ Cardinality(EntriesOfTxn(x.id)) = 2
    /\ \E i, j \in EntriesOfTxn(x.id) :
          /\ ledger[i] = Entry(x.id, x.sourceWalletId, DEBIT, x.amount,
                               ledger[i].balanceAfter)
          /\ ledger[j] = Entry(x.id, x.destinationWalletId, CREDIT, x.amount,
                               ledger[j].balanceAfter)

\* C21: wherever an executor invocation fails or is interrupted (before the
\* commit, in it, or after it in the re-read), the committed state holds for
\* its key either no row or one COMPLETED row with its full effect; the gate
\* therefore lets a later request with the key execute afresh or replays the
\* COMPLETED transaction, and the movement is applied at most once.
C21_FailureLeavesKeyReusable ==
    /\ \A x \in ExecutorRows : x.status = COMPLETED /\ FullEffect(x)
    /\ \A i \in DOMAIN ledger :
          \/ \E x \in txns : x.id = ledger[i].transactionId
    /\ \A key \in Keys :
          /\ Cardinality({x \in txns : x.idempotencyKey = key}) <= 1
          /\ GateVerdict(txns, key) \in {"proceed", "replay"}
          /\ Cardinality(EntriesOfKey(key, DEBIT)) <= 1
    /\ \A t \in Tasks :
          (pc[t] = "done" /\ res[t].outcome \in ExecutorThrows /\ qr[t].commits = 0)
              => ~\E x \in txns : x.id = TxnIdOf(t)

\* C21 witness: an invocation failed in its re-read after the commit; a later
\* request with the same key was answered by the gate with the COMPLETED
\* transaction, and alice's balance grew by the amount once.
C21_Witness ==
    \E t, u \in Tasks :
        /\ t # u /\ req[t].key = req[u].key
        /\ req[t].type = TOP_UP
        /\ res[t].outcome = "storage_error" /\ qr[t].commits = 1
        /\ res[u].outcome = "replay" /\ res[u].txn = TxnIdOf(t)
        /\ \E x \in txns : /\ x.id = TxnIdOf(t)
                           /\ x.destinationWalletId = WalletIdOf["alice"]
                           /\ wallets[WalletIdOf["alice"]] = aliceGold + x.amount

\* The wallet a request's user owns, or the treasury wallet, is not stored.
WalletAbsent(r) ==
    \/ r.userId \notin DOMAIN WalletIdOf
    \/ WalletIdOf[r.userId] \notin DOMAIN wallets
    \/ WalletIdOf[TreasuryUser] \notin DOMAIN wallets

\* C22: a movement whose user wallet or treasury wallet does not exist fails
\* with WalletNotFound, at the lookup before executeTransaction (no storage
\* transaction is opened) or at the locked read inside it (rolled back and
\* released), and leaves no transaction row, ledger entry or balance change;
\* when the first wallet in lock order is missing the second is never locked.
C22_WalletNotFound ==
    [][\A t \in Tasks :
         LET l == loc[t]
             order == LockOrder(l.sourceWalletId, l.destWalletId)
             failed == res'[t].outcome = "storage_error"
             rejected ==
                 /\ pc'[t] = "done"
                 /\ res'[t].outcome = "wallet_not_found"
                 /\ res'[t].txn = NoTxn
                 /\ dbVars' = dbVars
                 /\ ~\E x \in txns' : x.id = TxnIdOf(t)
                 /\ EntriesOfTxn(TxnIdOf(t))' = {}
                 /\ \A w \in WalletIds : lockHolder'[w] # t
                 /\ work'[t] = NoWork
                 /\ ~qr'[t].connected /\ ~qr'[t].isTransactionActive
         IN  /\ (pc[t] = "handler" /\ pc'[t] # "handler"
                   /\ req[t].key # NoKey /\ WalletAbsent(req[t]))
                => rejected /\ qr'[t] = NoQr
             /\ (pc[t] = "lock_first" /\ pc'[t] # "lock_first"
                   /\ order[1] \notin DOMAIN wallets /\ ~failed)
                => /\ rejected
                   /\ qr'[t].rollbacks = 1 /\ qr'[t].released = 1
                   /\ order[2] \in WalletIds => lockHolder[order[2]] # t
             /\ (pc[t] = "lock_second" /\ pc'[t] # "lock_second"
                   /\ order[2] \notin DOMAIN wallets /\ ~failed)
                => /\ rejected
                   /\ qr'[t].rollbacks = 1 /\ qr'[t].released = 1
                   /\ lockHolder[order[1]] = t]_vars

\* C22 witness: on the seeded database one request was refused at the
\* lookup, with no storage transaction, and one invocation was refused at a
\* locked read, rolled back and released; no wallet lock is left.
C22_Witness ==
    \E t, u \in Tasks :
        /\ res[t].outcome = "wallet_not_found" /\ qr[t] = NoQr
        /\ res[u].outcome = "wallet_not_found"
        /\ qr[u].rollbacks = 1 /\ qr[u].released = 1
        /\ wallets = SeededDb.wallets
        /\ \A w \in WalletIds : lockHolder[w] = 0

\* C23: running the seed again after a successful run changes nothing: no
\* asset type, user, wallet, transaction or ledger entry is added or modified
\* and every wallet balance stays as it is, whatever movements have been
\* committed since.
C23_SeedIdempotent ==
    users # {} =>
        /\ SeedRun(Db) = Db
        /\ SeedRun(SeedRun(Db)) = SeedRun(Db)

\* C23 witness: the seed has run and a purchase by bob has committed since,
\* so that the balances are no longer the seeded ones.
C23_Witness ==
    /\ SeededDb.txns \subseteq txns
    /\ \E x \in ExecutorRows :
          /\ x.type = PURCHASE /\ x.status = COMPLETED
          /\ x.sourceWalletId = WalletIdOf["bob"]
    /\ wallets[WalletIdOf["bob"]] < bobGold
    /\ SeedRun(Db).wallets = wallets

\* C24: the status of a transaction row moves only from PENDING to COMPLETED
\* and only inside the storage transaction that inserted it; a row that is
\* committed, COMPLETED or FAILED, is never changed or removed afterwards:
\* its status, amount, wallets and key stay as committed.
C24_StatusLifecycle ==
    [][/\ \A x \in txns :
             /\ x \in txns'
             /\ \A y \in txns' : y.id = x.id => y = x
       /\ \A y \in txns' \ txns :
             /\ y.status = COMPLETED
             /\ \E t \in Tasks :
                   /\ y.id = TxnIdOf(t) /\ work[t].row = COMPLETED
                   /\ qr[t].isTransactionActive /\ qr'[t].commits = 1
       /\ \A t \in Tasks :
             work'[t].row # work[t].row =>
                \/ /\ work[t].row = "none" /\ work'[t].row = PENDING
                   /\ qr[t].isTransactionActive
                \/ /\ work[t].row = PENDING /\ work'[t].row = COMPLETED
                   /\ qr[t].isTransactionActive /\ qr'[t] = qr[t]
                \/ /\ work'[t].row = "none"
                   /\ ~qr'[t].isTransactionActive]_vars

\* C24 witness: next to a stored FAILED transaction, which a request with
\* its key found at the gate, another request has committed its own
\* COMPLETED transaction.
C24_Witness ==
    \E t, u \in Tasks :
        /\ res[t].outcome = "terminally_failed"
        /\ res[u].outcome = "completed"
        /\ \E x \in txns : x.idempotencyKey = req[t].key /\ x.status = FAILED
        /\ \E y \in txns : y.id = TxnIdOf(u) /\ y.status = COMPLETED

SmallerId(a, b) == IF a < b THEN a ELSE b
LargerId(a, b) == IF a < b THEN b ELSE a

\* Task t holds the FOR UPDATE lock of wallet w.
HoldsLock(t, w) == w \in WalletIds /\ lockHolder[w] = t

\* C25: for every pair of distinct wallet ids passed as (source, destination),
\* in either order, lockWalletsInOrder requests the lock on the smaller id
\* first and the lock on the larger id only once it holds the first: before
\* the first locked read it holds neither, between the two reads it holds
\* the smaller and not the larger, and it never holds the larger without the
\* smaller.
C25_SmallerIdLockedFirst ==
    \A t \in Tasks :
        LET a == loc[t].sourceWalletId
            b == loc[t].destWalletId
        IN  (a # b /\ pc[t] \in {"lock_first", "lock_second", "validate", "commit"})
            => /\ pc[t] = "lock_first" =>
                     ~HoldsLock(t, a) /\ ~HoldsLock(t, b)
               /\ pc[t] = "lock_second" =>
                     HoldsLock(t, SmallerId(a, b)) /\ ~HoldsLock(t, LargerId(a, b))
               /\ pc[t] \in {"validate", "commit"} =>
                     HoldsLock(t, a) /\ HoldsLock(t, b)
               /\ HoldsLock(t, LargerId(a, b)) => HoldsLock(t, SmallerId(a, b))

\* C25 witness: two invocations stand between their two locked reads, one
\* called with source > destination, the other with source < destination;
\* each holds the smaller of its two ids.
C25_Witness ==
    \E t, u \in Tasks :
        /\ pc[t] = "lock_second" /\ pc[u] = "lock_second"
        /\ loc[t].sourceWalletId > loc[t].destWalletId
        /\ loc[u].sourceWalletId < loc[u].destWalletId
        /\ lockHolder[loc[t].destWalletId] = t
        /\ lockHolder[loc[u].sourceWalletId] = u

\* C26: for every pair of wallet ids (source, destination), whichever was
\* locked first, lockWalletsInOrder hands back the source wallet first and
\* the destination wallet second: the balances the executor holds as source
\* and destination are those of the source and destination rows, and the
\* balance it debits is the source wallet's.
C26_ReturnedInCallerOrder ==
    \A t \in Tasks :
        LET a == loc[t].sourceWalletId
            b == loc[t].destWalletId
        IN  pc[t] \in {"validate", "commit"} =>
               /\ loc[t].sourceBalance = wallets[a]
               /\ loc[t].destBalance = wallets[b]
               /\ (pc[t] = "commit" /\ a # b) =>
                     /\ work[t].balance[a] = wallets[a] - req[t].amount
                     /\ work[t].balance[b] = wallets[b] + req[t].amount

\* C26 witness: an invocation called with source > destination, so that the
\* destination was locked first, is about to commit; the two balances differ
\* and the source balance it holds is the source wallet's.
C26_Witness ==
    \E t \in Tasks :
        /\ pc[t] = "commit"
        /\ loc[t].sourceWalletId > loc[t].destWalletId
        /\ wallets[loc[t].sourceWalletId] # wallets[loc[t].destWalletId]
        /\ loc[t].sourceBalance = wallets[loc[t].sourceWalletId]
        /\ loc[t].first = wallets[loc[t].destWalletId]

\* Task t holds the FOR UPDATE locks of both wallets of its movement.
HoldsBothLocks(t) ==
    /\ HoldsLock(t, loc[t].sourceWalletId)
    /\ HoldsLock(t, loc[t].destWalletId)

\* What holds of every executor invocation in every state, for C27.
LockDiscipline(t) ==
    /\ (\E w \in WalletIds : lockHolder[w] = t) =>
          /\ work[t].row # "none"
          /\ qr[t].isTransactionActive
    /\ pc[t] \in {"lock_first", "lock_second"} => work[t].row = PENDING
    /\ (pc[t] \in {"validate", "commit"} \/ work[t].balance # <<>>) =>
          HoldsBothLocks(t)
    /\ pc[t] \in {"insert", "lock_first"} =>
          /\ \A w \in WalletIds : lockHolder[w] # t
          /\ loc[t].sourceBalance = 0 /\ loc[t].destBalance = 0

\* C27: within an executor invocation the PENDING row is inserted before any
\* wallet lock is requested; no balance is read for validation or
\* computation, and none is written, before the invocation holds the
\* exclusive locks on both wallets; and a lock is given up only by the
\* commit or the rollback of the invocation's storage transaction.
C27_InsertThenLockThenBalances ==
    [][\A t \in Tasks :
         /\ LockDiscipline(t)'
         /\ \A w \in WalletIds :
               (lockHolder[w] = t /\ lockHolder'[w] # t) =>
                  /\ qr[t].isTransactionActive /\ ~qr'[t].isTransactionActive
                  /\ qr'[t].commits + qr'[t].rollbacks = 1
                  /\ \A v \in WalletIds : lockHolder'[v] # t
         /\ (pc[t] = "insert" /\ pc'[t] = "lock_first") =>
               /\ work[t].row = "none" /\ work'[t].row = PENDING
               /\ lockHolder' = lockHolder]_vars

\* C27 witness: two purchases of bob are in flight; one has inserted its
\* PENDING row, holds both locks and has computed its balances, the other
\* stands at its insert and holds no lock.
C27_Witness ==
    \E t, u \in Tasks :
        /\ t # u
        /\ pc[t] = "commit" /\ HoldsBothLocks(t)
        /\ work[t].row = COMPLETED /\ work[t].balance # <<>>
        /\ loc[t].sourceWalletId = WalletIdOf["bob"]
        /\ pc[u] = "insert" /\ work[u].row = "none"
        /\ loc[u].sourceWalletId = WalletIdOf["bob"]
        /\ \A w \in WalletIds : lockHolder[w] # u

\* The movement of task t has one wallet as source and destination.
SelfTransfer(t) ==
    /\ loc[t].sourceWalletId = loc[t].destWalletId
    /\ loc[t].sourceWalletId \in DOMAIN wallets

\* C28 as stated: in a self-transfer the locker acquires the wallet's lock
\* once, not twice: after the first locked read it makes no second one.
C28_SelfTransferLockedOnce ==
    \A t \in Tasks : SelfTransfer(t) => pc[t] # "lock_second"

\* C28 (as amended): in a self-transfer the locker makes both locked reads
\* of the one wallet; the second finds the lock held by its own storage
\* transaction and is granted without waiting, reads the same row, and
\* leaves the wallet with one holder, so that source and destination are the
\* same row.
C28_SelfTransferLockReentrant ==
    [][\A t \in Tasks :
         /\ (SelfTransfer(t) /\ pc[t] = "lock_second")' =>
               /\ HoldsLock(t, loc[t].sourceWalletId)'
               /\ LockFree(t, loc[t].sourceWalletId)'
         /\ (SelfTransfer(t) /\ pc[t] = "lock_second" /\ pc'[t] = "validate") =>
               /\ lockHolder' = lockHolder
               /\ loc'[t].second = loc[t].first
               /\ loc'[t].sourceBalance = wallets[loc[t].sourceWalletId]
               /\ loc'[t].destBalance = wallets[loc[t].sourceWalletId]]_vars

\* C28 witness: a self-transfer on alice's wallet has made both locked reads
\* and holds the wallet's lock.
C28_Witness ==
    \E t \in Tasks :
        /\ SelfTransfer(t) /\ pc[t] = "validate"
        /\ loc[t].sourceWalletId = WalletIdOf["alice"]
        /\ lockHolder[WalletIdOf["alice"]] = t
        /\ loc[t].first = loc[t].second

\* C29: a purchase gets past validation if and only if the source wallet's
\* balance read under lock is at least the amount; one for exactly the whole
\* balance commits and leaves the balance at 0, and one for more fails with
\* InsufficientBalance, which reports the balance available and the amount
\* required, and changes nothing.
C29_PurchaseIffBalanceCovers ==
    [][\A t \in Tasks :
         req[t].type = PURCHASE =>
            LET src == loc[t].sourceWalletId
                dst == loc[t].destWalletId
                available == wallets[src]
                required == req[t].amount
            IN  /\ (pc[t] = "validate" /\ pc'[t] # "validate"
                      /\ res'[t].outcome # "storage_error") =>
                      /\ loc[t].sourceBalance = available
                      /\ (pc'[t] = "commit") <=> (available >= required)
                      /\ available < required =>
                            /\ pc'[t] = "done"
                            /\ res'[t].outcome = "insufficient_balance"
                            /\ res'[t].available = available
                            /\ res'[t].required = required
                            /\ dbVars' = dbVars
                            /\ qr'[t].rollbacks = 1 /\ qr'[t].commits = 0
                /\ (pc[t] = "commit" /\ pc'[t] = "find_by_id") =>
                      /\ available >= required
                      /\ src # dst => wallets'[src] = available - required
                      /\ (src # dst /\ available = required) => wallets'[src] = 0]_vars

\* C29 witness: bob bought for his whole balance, which is now 0, and his
\* next purchase was refused, reporting 0 available and the amount required.
C29_Witness ==
    \E t, u \in Tasks :
        /\ req[t].type = PURCHASE /\ req[t].userId = "bob"
        /\ req[t].amount = bobGold /\ res[t].outcome = "completed"
        /\ wallets[WalletIdOf["bob"]] = 0
        /\ req[u].type = PURCHASE /\ req[u].userId = "bob"
        /\ res[u].outcome = "insufficient_balance"
        /\ res[u].available = 0 /\ res[u].required = req[u].amount

\* No storage primitive has failed so far in the run.
NoStorageFailure == \A u \in Tasks : res[u].outcome # "storage_error"

\* The executor invocation of task t has ended: committed or rolled back
\* once, connection released, no lock held.
InvocationEnded(t) ==
    /\ pc[t] \in {"find_by_id", "find_by_key", "done"}
    /\ ~qr[t].isTransactionActive /\ ~qr[t].connected
    /\ qr[t].commits + qr[t].rollbacks = 1 /\ qr[t].released = 1
    /\ \A w \in WalletIds : lockHolder[w] # t

StoredKeys == Keys \cup {x.idempotencyKey : x \in SeededDb.txns}

\* C31: in every committed state produced by the executor and the seed,
\* every transaction row has status COMPLETED (a PENDING row exists only
\* uncommitted, inside the storage transaction that inserted it, and no
\* FAILED row is written), so the gate never answers a request with
\* ConflictInFlight or TerminallyFailed, whatever the sequence or
\* interleaving of topUp, bonus and purchase requests.
C31_OnlyCompletedCommitted ==
    /\ \A x \in txns : x.status = COMPLETED
    /\ \A key \in StoredKeys : GateVerdict(txns, key) \in {"proceed", "replay"}
    /\ \A t \in Tasks : res[t].outcome \notin {"conflict", "terminally_failed"}
    /\ \A t \in Tasks : work[t].row = PENDING => qr[t].isTransactionActive

\* C31 witness: on the seeded database a request has passed the gate while
\* another invocation's PENDING row with the same key was inserted and not
\* yet committed.
C31_Witness ==
    \E t, u \in Tasks :
        /\ t # u /\ req[t].key = req[u].key
        /\ work[t].row = PENDING /\ pc[t] = "lock_first"
        /\ pc[u] = "handler"
        /\ GateVerdict(txns, req[u].key) = "proceed"
        /\ SeededDb.txns \subseteq txns

RECURSIVE SumBalances(_, _)
SumBalances(ws, ids) ==
    IF ids = {} THEN 0
    ELSE LET w == CHOOSE v \in ids : TRUE
         IN  ws[w] + SumBalances(ws, ids \ {w})

\* The sum of the balances of all wallets.
TotalBalance(ws) == SumBalances(ws, DOMAIN ws)

\* C32 as stated: every committed movement conserves value: for every
\* topUp, bonus or purchase, one whose userId is the treasury user's (source
\* and destination the same wallet) included, the sum of the balances of all
\* wallets is the same after the commit as before it.
C32_MovementsConserveValue ==
    [][\A t \in Tasks :
         (pc[t] = "commit" /\ pc'[t] = "find_by_id")
         => TotalBalance(wallets') = TotalBalance(wallets)]_vars

\* The balance a wallet is created with by the seed, before any ledger entry.
OpeningBalance == 0

\* The sum of the amounts of the entries of kind entryType on wallet w.
EntrySum(w, entryType) ==
    SumEntries(EntriesOnWallet(w) \cap EntriesOfType(entryType))

\* C33 as stated: the ledger reconstructs every balance: in every committed
\* state and for every wallet, the balance is the wallet's balance before its
\* first ledger entry plus the sum of its CREDIT amounts minus the sum of its
\* DEBIT amounts, for all interleavings of executor movements.
C33_LedgerReconstructsBalance ==
    \A w \in DOMAIN wallets :
        wallets[w] = OpeningBalance + EntrySum(w, CREDIT) - EntrySum(w, DEBIT)

\* The INSERT of task t waits on the unique index for task u, whose inserted
\* row with the same idempotency key is uncommitted.
KeyWaitsFor(t, u) ==
    /\ t # u
    /\ pc[t] = "insert"
    /\ work[u].row # "none"
    /\ req[u].key = req[t].key

\* Task t waits for task u, on the key or on a wallet row lock.
BlockedBy(t, u) == KeyWaitsFor(t, u) \/ WaitsFor(t, u)

\* C34 as stated: counting the wait of an insert on an idempotency key that
\* another uncommitted storage transaction has inserted as a lock wait, no
\* cyclic wait among executor tasks is reachable, and a task blocked on a
\* key holds no wallet lock.
C34_NoCycleWithKeyWaits ==
    /\ ~\E S \in (SUBSET Tasks) \ {{}} :
          \A t \in S : \E u \in S : BlockedBy(t, u)
    /\ \A t, u \in Tasks :
          KeyWaitsFor(t, u) =>
              \A w \in WalletIds : lockHolder[w] # t /\ t \notin KeyShareHolders(w)

\* C35: a request whose key is that of an already committed transaction
\* never changes a wallet balance, a ledger entry or a transaction row,
\* whatever its operation type, user or amount: the gate answers it with the
\* stored transaction, and an invocation that got past the gate before the
\* commit takes the duplicate-key path, rolls back and reads the stored
\* transaction back; neither compares the request with the stored row.
C35_CommittedKeyChangesNothing ==
    [][\A t \in Tasks :
         (pc[t] # "idle" /\ pc'[t] # pc[t] /\ HasKey(txns, req[t].key))
         => LET stored == RowOfKey(txns, req[t].key)
                failed == res'[t].outcome = "storage_error"
            IN  /\ dbVars' = dbVars
                /\ pc[t] = "gate" =>
                      /\ pc'[t] = "done"
                      /\ res'[t].outcome = "replay" /\ res'[t].txn = stored.id
                      /\ qr'[t] = NoQr
                /\ pc[t] = "insert" =>
                      \/ failed
                      \/ /\ pc'[t] = "find_by_key"
                         /\ qr'[t].rollbacks = 1 /\ work'[t] = NoWork
                /\ pc[t] = "find_by_key" =>
                      \/ failed
                      \/ res'[t].outcome = "duplicate_replay" /\ res'[t].txn = stored.id
                /\ pc[t] \notin {"lock_first", "lock_second", "validate", "commit"}]_vars

\* C35 witness: alice's top-up committed; a purchase by bob of another
\* amount under the same key, which had passed the gate before the commit,
\* was answered with the top-up's transaction, and bob's balance is the
\* seeded one.
C35_Witness ==
    \E t, u \in Tasks :
        /\ req[t].key = req[u].key
        /\ req[t].type = TOP_UP /\ req[t].userId = "alice"
        /\ req[u].type = PURCHASE /\ req[u].userId = "bob"
        /\ req[u].amount # req[t].amount
        /\ res[t].outcome = "completed"
        /\ res[u].outcome = "duplicate_replay" /\ res[u].txn = TxnIdOf(t)
        /\ wallets[WalletIdOf["bob"]] = bobGold
        /\ wallets[WalletIdOf["alice"]] = aliceGold + req[t].amount

\* What holds in every state of an invocation on the duplicate-key path: the
\* row that gave it the 23505 is committed and COMPLETED, it is another
\* invocation's, and the read-back finds it.
ReadBackFindsRow(t) ==
    /\ pc[t] = "find_by_key" =>
          /\ HasKey(txns, req[t].key)
          /\ RowOfKey(txns, req[t].key).status = COMPLETED
          /\ RowOfKey(txns, req[t].key).id # TxnIdOf(t)
    /\ res[t].outcome = "duplicate_replay" =>
          \E x \in txns : x.id = res[t].txn /\ x.idempotencyKey = req[t].key
    /\ res[t].outcome # "not_found"

\* C36: when two concurrent requests share a key and the one that inserted
\* first ends without committing (InsufficientBalance, or any other
\* failure), the key is free again: the other request's INSERT no longer
\* waits on the key, raises no unique violation and, when it runs, inserts
\* its own PENDING row and goes on to lock and execute.  An INSERT raises
\* 23505 only on a committed row, so the read-back after it always finds a
\* transaction.
C36_RollbackFreesKeyForWaiter ==
    [][\A t \in Tasks :
         /\ ReadBackFindsRow(t)'
         /\ \A u \in Tasks :
               (KeyWaitsFor(u, t) /\ pc'[t] = "done") =>
                  /\ ~HasKey(txns', req[u].key)
                  /\ pc'[u] = "insert"
                  /\ ~KeyHeldByOther(u)'
                  /\ ~UniqueViolation(txns', req'[u].key)
         /\ (pc[t] = "insert" /\ pc'[t] # "insert") =>
               \/ res'[t].outcome = "storage_error"
               \/ /\ HasKey(txns, req[t].key)
                  /\ pc'[t] = "find_by_key"
               \/ /\ ~HasKey(txns, req[t].key)
                  /\ pc'[t] = "lock_first" /\ work'[t].row = PENDING]_vars

\* C36 witness: two purchases of bob share a key; the one for more than his
\* balance was rejected and rolled back, and the other has since inserted
\* its own PENDING row, locked both wallets and passed validation.
C36_Witness ==
    \E t, u \in Tasks :
        /\ t # u /\ req[t].key = req[u].key
        /\ req[t].type = PURCHASE /\ req[t].userId = "bob"
        /\ res[t].outcome = "insufficient_balance" /\ qr[t].rollbacks = 1
        /\ req[u].type = PURCHASE /\ req[u].userId = "bob"
        /\ pc[u] = "commit" /\ work[u].row = COMPLETED
        /\ ~HasKey(txns, req[u].key)

\* The committed rows of the step's first state are all there, unchanged, in
\* its second state, and the second state's ledger extends the first's.
CommittedRowsKept ==
    /\ users' = users /\ assetTypes' = assetTypes
    /\ DOMAIN wallets' = DOMAIN wallets
    /\ txns \subseteq txns'
    /\ Len(ledger') >= Len(ledger)
    /\ SubSeq(ledger', 1, Len(ledger)) = ledger

\* C37: a committed movement modifies only the balances of its source and
\* destination wallets and adds only its own transaction row and its two
\* ledger entries; every other wallet balance and every previously committed
\* transaction and ledger entry is unchanged; a request that replays or
\* fails, and every step that is not a commit, changes nothing at all.
C37_MovementChangesOnlyItsOwn ==
    [][/\ \/ dbVars' = dbVars
          \/ \E t \in Tasks :
                /\ pc[t] = "commit" /\ pc'[t] = "find_by_id"
                /\ CommittedRowsKept
                /\ \A w \in DOMAIN wallets \ {loc[t].sourceWalletId, loc[t].destWalletId} :
                      wallets'[w] = wallets[w]
                /\ \E x \in txns' :
                      /\ txns' \ txns = {x}
                      /\ x.id = TxnIdOf(t) /\ x.idempotencyKey = req[t].key
                /\ Len(ledger') = Len(ledger) + 2
                /\ \A i \in (DOMAIN ledger') \ (DOMAIN ledger) :
                      /\ ledger'[i].transactionId = TxnIdOf(t)
                      /\ ledger'[i].walletId \in {loc[t].sourceWalletId,
                                                  loc[t].destWalletId}
       /\ \A t \in Tasks :
             (pc[t] # "done" /\ pc'[t] \in {"done", "find_by_key"}) => dbVars' = dbVars]_vars

\* C37 witness: after an earlier committed top-up of alice, a purchase by bob
\* committed and another request failed or was replayed; alice's balance and
\* the earlier transaction and its entries are as they were.
C37_Witness ==
    \E t, u \in Tasks :
        /\ res[t].outcome = "completed"
        /\ req[t].type = PURCHASE /\ req[t].userId = "bob"
        /\ res[u].outcome \in {"insufficient_balance", "replay", "duplicate_replay"}
        /\ \E level \in TreasuryLevels :
              /\ SpentDb(level).txns \subseteq txns
              /\ SubSeq(ledger, 1, Len(SpentDb(level).ledger)) = SpentDb(level).ledger
              /\ wallets[WalletIdOf["alice"]] = SpentDb(level).wallets[WalletIdOf["alice"]]
        /\ Len(ledger) = Len(SeededDb.ledger) + 4
        /\ wallets[WalletIdOf["bob"]] = bobGold - req[t].amount

\* The number of times a storage transaction of task t has been ended.
Endings(q) == q.commits + q.rollbacks

\* C38: within one executor invocation that opened its storage transaction,
\* rollback (like commit) is requested only while the transaction is active
\* and ends it, so it is never requested on a transaction already committed
\* or rolled back: after the explicit rollback of the duplicate-key path and
\* of the insufficient-balance path the catch block does not roll back
\* again, and when the invocation has released its connection exactly one
\* commit or rollback has taken effect.
C38_OneCommitOrRollback ==
    [][\A t \in Tasks :
         /\ Endings(qr'[t]) <= 1
         /\ Endings(qr'[t]) # Endings(qr[t]) =>
               /\ qr[t].isTransactionActive /\ ~qr'[t].isTransactionActive
               /\ Endings(qr'[t]) = Endings(qr[t]) + 1
         /\ (qr[t].isTransactionActive /\ ~qr'[t].isTransactionActive) =>
               Endings(qr'[t]) = 1
         /\ (pc[t] = "insert" /\ pc'[t] = "find_by_key") =>
               qr'[t].rollbacks = 1 /\ qr'[t].commits = 0
         /\ (pc[t] = "validate" /\ res'[t].outcome = "insufficient_balance") =>
               qr'[t].rollbacks = 1 /\ qr'[t].commits = 0
         /\ (pc[t] = "commit" /\ pc'[t] = "find_by_id") =>
               qr'[t].commits = 1 /\ qr'[t].rollbacks = 0
         /\ (pc[t] = "find_by_id" /\ pc'[t] = "done") => qr'[t] = qr[t]
         /\ qr'[t].released = 1 =>
               Endings(qr'[t]) = 1 /\ ~qr'[t].isTransactionActive]_vars

\* C38 witness: one invocation ended on the insufficient-balance path, with
\* one rollback and its connection released, another by its commit.
C38_Witness ==
    \E t, u \in Tasks :
        /\ res[t].outcome = "insufficient_balance"
        /\ qr[t].rollbacks = 1 /\ qr[t].commits = 0 /\ qr[t].released = 1
        /\ res[u].outcome = "completed"
        /\ qr[u].commits = 1 /\ qr[u].rollbacks = 0 /\ qr[u].released = 1

====
